---- MODULE Spec2Model ----
(***************************************************************************)
(* A model of deployment-copy (decopy): the copy orchestrator              *)
(* CopyQueue::start_copy (src/src/copy.rs), the byte formatter             *)
(* get_bytes_string (src/src/main.rs), truncate (src/src/string.rs) and    *)
(* the box renderer UserInterface (src/src/ui.rs).                         *)
(*                                                                         *)
(* Strings are sequences of characters.  A printable ASCII character is    *)
(* the one-character TLA+ string; a longer string names a character that   *)
(* a TLA+ string cannot hold ("VERT" is U+2502, "EUR" is U+20AC, "ESC" is  *)
(* U+001B, "LF" is U+000A, "GRAVE" is U+0060, ...).                        *)
(* Utf8Len gives the number of bytes a character takes in Rust's String,   *)
(* so that byte lengths (String::len), byte offsets (char_indices) and     *)
(* byte slices (s[..idx]) are computed as the code computes them.          *)
(***************************************************************************)
EXTENDS Integers, Sequences, FiniteSets, TLC

VARIABLES
    \* ---- CopyQueue::start_copy (copy.rs) ----
    destinations,   \* self.destinations: Vec<PathBuf>
    pc,             \* position in start_copy
    total_bytes,    \* let total_bytes = get_size(..).unwrap()
    size_result,    \* what get_size returned: "none" (not called), "ok", "err"
    dest_idx,       \* loop iterations started so far
    dest,           \* the loop variable `dest` ("" before the loop)
    copied_bytes,   \* proc_info.copied_bytes of the running copy_with_progress
    ticks,          \* progress handler calls made by the running copy
    events,         \* the calls onpercentage received, in order
    outcomes,       \* per attempted destination: "ok" or "err" (history)
    completions,    \* the number of times oncomplete ran
    \* ---- get_bytes_string (main.rs) ----
    fmt_prev,       \* the previous call: [bytes, out], or [bytes |-> <<>>, ..] if none
    fmt_bytes,      \* argument `bytes`, as base-1024 limbs (least significant first)
    fmt_out,        \* the returned String
    fmt_done,       \* whether get_bytes_string has returned for fmt_bytes
    \* ---- truncate (string.rs) ----
    tr_s,           \* the argument of the first call
    tr_n,           \* max_chars
    tr_first,       \* the String returned by the first call
    tr_out,         \* the String returned by the latest call
    tr_calls,       \* calls made: the second call truncates the first result
    \* ---- UserInterface::render_lines (ui.rs) ----
    rl_content,     \* argument `content`: Vec<String>
    rl_rows,        \* the rows queued to stdout
    rl_status,      \* "idle", "ok", "overflow_panic" (debug), "wrapped" (release)
    \* ---- UserInterface (ui.rs) ----
    ui_arg,         \* the CopyQueue the caller built (CopyQueue::from(&args))
    ui_no_color,    \* NO_COLOR is set in the environment (crossterm reads it once)
    ui_state,       \* self.state: "None", "PreCopy", "Copying" or "Completed"
    ui_queue,       \* the CopyQueue held by PreCopy / Completed
    ui_prev,        \* the variant self.state held before the last with_* call
    ui_screen,      \* every row the last render queued to stdout
    ui_rows,        \* of these, the content rows of render_queue
    ui_rendered     \* whether render has drawn the PreCopy screen

copy_vars == <<destinations, pc, total_bytes, size_result, dest_idx, dest,
               copied_bytes, ticks, events, outcomes, completions>>
fmt_vars == <<fmt_prev, fmt_bytes, fmt_out, fmt_done>>
tr_vars == <<tr_s, tr_n, tr_first, tr_out, tr_calls>>
rl_vars == <<rl_content, rl_rows, rl_status>>
ui_vars == <<ui_arg, ui_no_color, ui_state, ui_queue, ui_prev, ui_screen, ui_rows,
             ui_rendered>>
vars == <<copy_vars, fmt_vars, tr_vars, rl_vars, ui_vars>>

\* what the operations of one component leave alone: the other components
not_copy == <<fmt_vars, tr_vars, rl_vars, ui_vars>>
not_fmt == <<copy_vars, tr_vars, rl_vars, ui_vars>>
not_tr == <<copy_vars, fmt_vars, rl_vars, ui_vars>>
not_rl == <<copy_vars, fmt_vars, tr_vars, ui_vars>>
not_ui == <<copy_vars, fmt_vars, tr_vars, rl_vars>>

(***************************************************************************)
(* Bounds                                                                  *)
(***************************************************************************)
MaxDests == 2       \* destinations in a start_copy queue
MaxTotal == 1       \* the measured size of the source
MaxBytes == 2       \* copied_bytes a progress tick can report
MaxTicks == 2       \* progress ticks per destination
MaxTopLimb == 2     \* the 1024^4 limb of a byte count
MaxLen == 3         \* characters in a truncate argument
MaxChars == 4       \* truncate's max_chars
MaxLineLen == 53    \* visible characters in a render_lines line
MaxQueue == 5       \* destinations in a rendered queue
MaxSrcLen == 17     \* characters in the rendered queue's source path

(***************************************************************************)
(* Strings                                                                 *)
(***************************************************************************)
Min(a, b) == IF a <= b THEN a ELSE b

\* char::len_utf8 for the characters the model uses
Utf8Len(c) ==
    IF c \in {"VERT", "HORZ", "SPLIT_RIGHT", "SPLIT_LEFT", "SPLIT_ABOVE",
              "SPLIT_BELOW", "BOTTOM_LEFT", "BOTTOM_RIGHT", "TOP_LEFT",
              "TOP_RIGHT", "EUR"} THEN 3
    ELSE IF c = "EACUTE" THEN 2
    ELSE 1

\* String::len: the length in bytes, the sum of the characters' UTF-8
\* lengths (each is 1..4: the characters of at least k bytes, for each k)
ByteLen(s) ==
    Cardinality({i \in 1..Len(s) : Utf8Len(s[i]) >= 1})
    + Cardinality({i \in 1..Len(s) : Utf8Len(s[i]) >= 2})
    + Cardinality({i \in 1..Len(s) : Utf8Len(s[i]) >= 3})
    + Cardinality({i \in 1..Len(s) : Utf8Len(s[i]) >= 4})

\* str::chars().count()
CharCount(s) == Len(s)

\* str::repeat
Repeat(s, n) == [i \in 1..(n * Len(s)) |-> s[((i - 1) % Len(s)) + 1]]

\* str::char_indices: every character with its byte offset, which is the
\* byte length of what precedes it
char_indices(s) ==
    [i \in 1..Len(s) |-> [idx |-> ByteLen(SubSeq(s, 1, i - 1)), ch |-> s[i]]]

\* &s[..idx]: the characters that lie in the first idx bytes (idx is a
\* character boundary wherever the code slices)
SliceTo(s, idx) ==
    SubSeq(s, 1, Cardinality({k \in 1..Len(s) : ByteLen(SubSeq(s, 1, k)) <= idx}))

(***************************************************************************)
(* CopyQueue::start_copy                                                   *)
(*                                                                         *)
(* fs_extra's get_size and copy_with_progress are the environment: the     *)
(* measured size, the copied_bytes of each progress tick (cumulative, so   *)
(* non-decreasing within one copy) and each call's Ok or Err are free.     *)
(***************************************************************************)
Paths == {"D:", "E:"}

DestQueues == UNION {[1..n -> Paths] : n \in 0..MaxDests}

\* 2^k for k in 0..30
Pow2(k) ==
    <<1, 2, 4, 8, 16, 32, 64, 128, 256, 512, 1024, 2048, 4096, 8192, 16384,
      32768, 65536, 131072, 262144, 524288, 1048576, 2097152, 4194304,
      8388608, 16777216, 33554432, 67108864, 134217728, 268435456,
      536870912, 1073741824>>[k + 1]

\* TLC's integers have 32 bits, a usize and an f64's mantissa have more:
\* both are held as four words of 16 bits, least significant first.
WORD == 65536

\* a usize below 2^31
Usize(n) == <<n % WORD, n \div WORD, 0, 0>>

\* usize::MAX = 2^64 - 1
USIZE_MAX == <<65535, 65535, 65535, 65535>>

\* the carries of a four-word number moved upwards (the top word holds
\* whatever exceeds 48 bits)
Carry(w) ==
    LET x2 == w[2] + (w[1] \div WORD)
        x3 == w[3] + (x2 \div WORD)
    IN  <<w[1] % WORD, x2 % WORD, x3 % WORD, w[4] + (x3 \div WORD)>>

\* c as f64 / t as f64 for 0 < c, t < 2^15 (both conversions are exact):
\* the f64 nearest to c / t, ties to even, as mant * 2^(-scale) with a
\* mantissa of 53 bits: 16 <= (c / t) * 2^a < 32 places the top five
\* bits.  The quotient is developed 16 bits at a time from
\* there; what is left of the division decides the rounding.
F64Div(c, t) ==
    LET a == CHOOSE k \in -10..19 :
                 IF k >= 0
                 THEN /\ (16 * t - 1) \div Pow2(k) < c
                      /\ c <= (32 * t - 1) \div Pow2(k)
                 ELSE /\ 16 * t * Pow2(-k) <= c
                      /\ c < 32 * t * Pow2(-k)
        n == c * Pow2(IF a > 0 THEN a ELSE 0)
        d == t * Pow2(IF a < 0 THEN -a ELSE 0)
        top == n \div d
        r0 == n % d
        w3 == (r0 * WORD) \div d
        r1 == (r0 * WORD) % d
        w2 == (r1 * WORD) \div d
        r2 == (r1 * WORD) % d
        w1 == (r2 * WORD) \div d
        r3 == (r2 * WORD) % d
        up == 2 * r3 > d \/ (2 * r3 = d /\ w1 % 2 = 1)
    IN  [mant |-> Carry(<<w1 + (IF up THEN 1 ELSE 0), w2, w3, top>>),
         scale |-> 48 + a]

\* x * 100.: the exact product has 59 or 60 bits, of which an f64 keeps the
\* upper 53, rounded to nearest, ties to even
F64Mul100(x) ==
    LET p == Carry(<<x.mant[1] * 100, x.mant[2] * 100, x.mant[3] * 100,
                     x.mant[4] * 100>>)
        k == IF p[4] < 2048 THEN 6 ELSE 7
        low == p[1] % Pow2(k)
        half == Pow2(k - 1)
        up == low > half \/ (low = half /\ (p[1] \div Pow2(k)) % 2 = 1)
    IN  [mant |-> Carry(<<p[1] - low + (IF up THEN Pow2(k) ELSE 0),
                          p[2], p[3], p[4]>>),
         scale |-> x.scale]

\* a finite f64 that is not negative `as usize`: the fraction is dropped
\* (scale is at least 38 here, so the two lower words are fraction)
F64Trunc(x) ==
    IF x.scale >= 48
    THEN IF x.scale - 48 > 30 THEN 0 ELSE x.mant[4] \div Pow2(x.scale - 48)
    ELSE (x.mant[4] * WORD + x.mant[3]) \div Pow2(x.scale - 32)

\* (proc_info.copied_bytes as f64 / total_bytes as f64) * 100., cast `as usize`:
\* 0/0 is NaN and casts to 0, c/0 is infinite and casts to usize::MAX, any
\* other product is truncated.  The product is the f64 one, which can lie
\* below the exact 100 * copied / total (29/100 gives 28, 23/5 gives 459).
Percentage(copied, total) ==
    IF total = 0
    THEN IF copied = 0 THEN Usize(0) ELSE USIZE_MAX
    ELSE IF copied = 0 THEN Usize(0)
    ELSE Usize(F64Trunc(F64Mul100(F64Div(copied, total))))

\* the i-th item of `for dest in self.destinations.clone()`
IterNextReversed(v, i) == v[Len(v) + 1 - i]
IterNext(v, i) == v[i]

CopyInit ==
    /\ destinations \in DestQueues
    /\ pc = "start"
    /\ total_bytes = 0
    /\ size_result = "none"
    /\ dest_idx = 0
    /\ dest = ""
    /\ copied_bytes = 0
    /\ ticks = 0
    /\ events = <<>>
    /\ outcomes = <<>>
    /\ completions = 0

\* get_size(..) returns Ok(total)
GetSizeOk ==
    /\ pc = "start"
    /\ \E t \in 0..MaxTotal : total_bytes' = t
    /\ size_result' = "ok"
    /\ pc' = "loop"
    /\ UNCHANGED <<destinations, dest_idx, dest, copied_bytes, ticks, events,
                   outcomes, completions>>
    /\ UNCHANGED not_copy

\* get_size(..) returns Err and the measurement is ignored (a size of 0)
GetSizeErrIgnored ==
    /\ pc = "start"
    /\ size_result' = "err"
    /\ pc' = "loop"
    /\ UNCHANGED <<destinations, total_bytes, dest_idx, dest, copied_bytes,
                   ticks, events, outcomes, completions>>
    /\ UNCHANGED not_copy

\* get_size(..) returns Err: unwrap() panics
GetSizeErr ==
    /\ pc = "start"
    /\ size_result' = "err"
    /\ pc' = "panic_get_size"
    /\ UNCHANGED <<destinations, total_bytes, dest_idx, dest, copied_bytes,
                   ticks, events, outcomes, completions>>
    /\ UNCHANGED not_copy

\* the for loop takes its next destination and calls copy_with_progress
BeginCopy ==
    /\ pc = "loop"
    /\ dest_idx < Len(destinations)
    /\ dest_idx' = dest_idx + 1
    /\ dest' = IterNext(destinations, dest_idx + 1)
    /\ copied_bytes' = 0
    /\ ticks' = 0
    /\ pc' = "copying"
    /\ UNCHANGED <<destinations, total_bytes, size_result, events, outcomes,
                   completions>>
    /\ UNCHANGED not_copy

\* copy_with_progress calls the progress handler, which calls onpercentage
\* with the percentage and the destination (handle_copying's closure also
\* names the bytes copied; `copied` and `pos` record the tick and the copy
\* it came from)
Progress ==
    /\ pc = "copying"
    /\ ticks < MaxTicks
    /\ \E c \in copied_bytes..MaxBytes :
          /\ copied_bytes' = c
          /\ events' = Append(events,
                 [percentage |-> Percentage(c, total_bytes),
                  dest |-> dest,
                  copied |-> c,
                  pos |-> dest_idx])
    /\ ticks' = ticks + 1
    /\ UNCHANGED <<destinations, pc, total_bytes, size_result, dest_idx, dest,
                   outcomes, completions>>
    /\ UNCHANGED not_copy

\* copy_with_progress returns Ok: unwrap() passes, the loop goes on
CopyOk ==
    /\ pc = "copying"
    /\ outcomes' = Append(outcomes, "ok")
    /\ pc' = "loop"
    /\ UNCHANGED <<destinations, total_bytes, size_result, dest_idx, dest,
                   copied_bytes, ticks, events, completions>>
    /\ UNCHANGED not_copy

\* copy_with_progress returns Err: unwrap() panics
CopyErr ==
    /\ pc = "copying"
    /\ outcomes' = Append(outcomes, "err")
    /\ pc' = "panic_copy"
    /\ UNCHANGED <<destinations, total_bytes, size_result, dest_idx, dest,
                   copied_bytes, ticks, events, completions>>
    /\ UNCHANGED not_copy

\* the loop is exhausted: oncomplete()
OnComplete ==
    /\ pc = "loop"
    /\ dest_idx = Len(destinations)
    /\ completions' = completions + 1
    /\ pc' = "done"
    /\ UNCHANGED <<destinations, total_bytes, size_result, dest_idx, dest,
                   copied_bytes, ticks, events, outcomes>>
    /\ UNCHANGED not_copy

(***************************************************************************)
(* get_bytes_string                                                        *)
(*                                                                         *)
(* 1024^4 is beyond TLC's integers, so a byte count is held as five        *)
(* base-1024 limbs, least significant first: <<l0, l1, l2, l3, l4>> is     *)
(* l0 + l1*1024 + l2*1024^2 + l3*1024^3 + l4*1024^4.  Comparison with and  *)
(* division by a power of 1024 are computed on the limbs.                  *)
(***************************************************************************)
LimbValues == {0, 1, 1023}

ByteInputs ==
    {<<a, b, c, d, e>> : a \in LimbValues, b \in LimbValues, c \in LimbValues,
                         d \in LimbValues, e \in 0..MaxTopLimb}

\* 1024usize.pow(k)
Pow1024(k) == [i \in 1..5 |-> IF i = k + 1 THEN 1 ELSE 0]

\* a >= b on limbs, compared from limb i down
RECURSIVE GeFrom(_, _, _)
GeFrom(a, b, i) ==
    IF i = 0 THEN TRUE
    ELSE IF a[i] > b[i] THEN TRUE
    ELSE IF a[i] < b[i] THEN FALSE
    ELSE GeFrom(a, b, i - 1)
Ge(a, b) == GeFrom(a, b, 5)
Gt(a, b) == Ge(a, b) /\ a # b

\* the integer a limb sequence stands for (where it fits TLC's integers)
RECURSIVE LimbsValue(_)
LimbsValue(l) == IF l = <<>> THEN 0 ELSE Head(l) + 1024 * LimbsValue(Tail(l))

\* bytes / 1024usize.pow(k)
DivPow1024(bytes, k) == LimbsValue(SubSeq(bytes, k + 1, 5))

DigitChars == <<"0", "1", "2", "3", "4", "5", "6", "7", "8", "9">>

\* format!("{}", n) of an unsigned integer: its decimal digits
RECURSIVE Display(_)
Display(n) ==
    IF n < 10 THEN <<DigitChars[n + 1]>>
    ELSE Display(n \div 10) \o <<DigitChars[(n % 10) + 1]>>

\* get_bytes_string with `>` where the code has `>=`
get_bytes_string_strict(bytes) ==
    IF Gt(bytes, Pow1024(4)) THEN Display(DivPow1024(bytes, 4)) \o <<"t", "b">>
    ELSE IF Gt(bytes, Pow1024(3)) THEN Display(DivPow1024(bytes, 3)) \o <<"g", "b">>
    ELSE IF Gt(bytes, Pow1024(2)) THEN Display(DivPow1024(bytes, 2)) \o <<"m", "b">>
    ELSE IF Gt(bytes, Pow1024(1)) THEN Display(DivPow1024(bytes, 1)) \o <<"k", "b">>
    ELSE Display(DivPow1024(bytes, 0)) \o <<"b">>

get_bytes_string(bytes) ==
    IF Ge(bytes, Pow1024(4)) THEN Display(DivPow1024(bytes, 4)) \o <<"t", "b">>
    ELSE IF Ge(bytes, Pow1024(3)) THEN Display(DivPow1024(bytes, 3)) \o <<"g", "b">>
    ELSE IF Ge(bytes, Pow1024(2)) THEN Display(DivPow1024(bytes, 2)) \o <<"m", "b">>
    ELSE IF Ge(bytes, Pow1024(1)) THEN Display(DivPow1024(bytes, 1)) \o <<"k", "b">>
    ELSE Display(DivPow1024(bytes, 0)) \o <<"b">>

NoCall == [bytes |-> <<>>, out |-> <<>>]

FormatInit ==
    /\ fmt_prev = NoCall
    /\ fmt_bytes \in ByteInputs
    /\ fmt_out = <<>>
    /\ fmt_done = FALSE

\* a call of get_bytes_string(fmt_bytes)
GetBytesString ==
    /\ ~fmt_done
    /\ fmt_out' = get_bytes_string(fmt_bytes)
    /\ fmt_done' = TRUE
    /\ UNCHANGED <<fmt_prev, fmt_bytes>>
    /\ UNCHANGED not_fmt

\* the caller (handle_copying's onpercentage) has the next byte count
NextBytes ==
    /\ fmt_done
    /\ fmt_prev' = [bytes |-> fmt_bytes, out |-> fmt_out]
    /\ fmt_bytes' \in ByteInputs
    /\ fmt_out' = <<>>
    /\ fmt_done' = FALSE
    /\ UNCHANGED not_fmt

(***************************************************************************)
(* truncate                                                                *)
(***************************************************************************)
TruncChars == {"a", "EACUTE", "EUR"}

TruncInputs == UNION {[1..n -> TruncChars] : n \in 0..MaxLen}

\* truncate taking max_chars as a number of bytes
truncate_bytes(s, max_chars) == SliceTo(s, Min(max_chars, ByteLen(s)))

\* s.char_indices().nth(max_chars): None => s, Some((idx, _)) => s[..idx]
truncate(s, max_chars) ==
    LET ci == char_indices(s)
    IN  IF Len(ci) < max_chars + 1 THEN s
        ELSE SliceTo(s, ci[max_chars + 1].idx)

TruncateInit ==
    /\ tr_s \in TruncInputs
    /\ tr_n \in 0..MaxChars
    /\ tr_first = <<>>
    /\ tr_out = <<>>
    /\ tr_calls = 0

\* truncate(tr_s, tr_n)
TruncateFirst ==
    /\ tr_calls = 0
    /\ tr_first' = truncate(tr_s, tr_n)
    /\ tr_out' = truncate(tr_s, tr_n)
    /\ tr_calls' = 1
    /\ UNCHANGED <<tr_s, tr_n>>
    /\ UNCHANGED not_tr

\* truncate applied to its own result
TruncateAgain ==
    /\ tr_calls = 1
    /\ tr_out' = truncate(tr_out, tr_n)
    /\ tr_calls' = 2
    /\ UNCHANGED <<tr_s, tr_n, tr_first>>
    /\ UNCHANGED not_tr

(***************************************************************************)
(* UserInterface: the box drawing                                          *)
(***************************************************************************)
VERTICAL_CHAR == "VERT"
HORIZONTAL_CHAR == "HORZ"
SPLIT_RIGHT == "SPLIT_RIGHT"
SPLIT_LEFT == "SPLIT_LEFT"
SPLIT_ABOVE == "SPLIT_ABOVE"
SPLIT_BELOW == "SPLIT_BELOW"
BOTTOM_LEFT_CHAR == "BOTTOM_LEFT"
BOTTOM_RIGHT_CHAR == "BOTTOM_RIGHT"
TOP_LEFT_CHAR == "TOP_LEFT"
TOP_RIGHT_CHAR == "TOP_RIGHT"
BOX_WIDTH == 51

Spaces(n) == [i \in 1..n |-> " "]

\* ESC [ params m
Sgr(params) == <<"ESC", "[">> \o params \o <<"m">>

\* crossterm's colours, as the n of ESC [ 38 ; 5 ; n m
Magenta == <<"1", "3">>
DarkGrey == <<"8">>
Red == <<"9">>
NoColor == <<>>

\* crossterm's Display of a colour: nothing when NO_COLOR is set to a
\* value that is not empty, so that the sequence is the bare ESC [ m
Colored(params, no_color) == IF no_color THEN <<>> ELSE params

\* crossterm's Stylize, displayed: the foreground colour when one is set,
\* the bold attribute when set, the text, and then ESC [ 0 m when an
\* attribute was set, otherwise the colour reset (ESC [ 39 m) alone
Styled(text, fg, bold, no_color) ==
    (IF fg # NoColor
     THEN Sgr(Colored(<<"3", "8", ";", "5", ";">> \o fg, no_color))
     ELSE <<>>)
    \o (IF bold THEN Sgr(<<"1">>) ELSE <<>>)
    \o text
    \o (IF bold THEN Sgr(<<"0">>)
        ELSE IF fg # NoColor THEN Sgr(Colored(<<"3", "9">>, no_color))
        ELSE <<>>)

\* strip_ansi_escapes::strip feeds the string to vte's parser and writes
\* what the parser prints, and a newline for each line feed it executes.
\* The parser reads characters by class: ESC, CAN and SUB act in every
\* state; of the other C0 controls the model has LF and BEL.
CharClass(c) ==
    CASE c = "ESC" -> "esc"
      [] c \in {"CAN", "SUB"} -> "cancel"
      [] c \in {"LF", "BEL"} -> "c0"
      [] c \in {" ", "!", "\"", "#", "$", "%", "&", "'", "(", ")", "*", "+",
                ",", "-", ".", "/"} -> "intermediate"             \* 20..2F
      [] c \in {"0", "1", "2", "3", "4", "5", "6", "7", "8", "9", ":", ";"}
            -> "param"                                            \* 30..3B
      [] c \in {"<", "=", ">", "?"} -> "private"                  \* 3C..3F
      [] c \in {"@", "A", "B", "C", "D", "E", "F", "G", "H", "I", "J", "K",
                "L", "M", "N", "O", "P", "Q", "R", "S", "T", "U", "V", "W",
                "X", "Y", "Z", "[", "\\", "]", "^", "_", "GRAVE", "a", "b",
                "c", "d", "e", "f", "g", "h", "i", "j", "k", "l", "m", "n",
                "o", "p", "q", "r", "s", "t", "u", "v", "w", "x", "y", "z",
                "{", "|", "}", "~"} -> "final"                    \* 40..7E
      [] OTHER -> "utf8"                                          \* not ASCII

StripStates ==
    {"ground", "escape", "escape_intermediate", "csi_entry", "csi_param",
     "csi_intermediate", "csi_ignore", "dcs_entry", "dcs_param",
     "dcs_intermediate", "dcs_passthrough", "dcs_ignore", "osc_string",
     "sos_pm_apc_string"}

\* the states in which a C0 control is executed
ExecuteStates ==
    {"ground", "escape", "escape_intermediate", "csi_entry", "csi_param",
     "csi_intermediate", "csi_ignore"}

\* the parser's state after reading a character of class k that is not a
\* control and not outside ASCII, in a state other than ground
SequenceStep(st, k, c) ==
    CASE st = "escape" ->
            (CASE k = "intermediate" -> "escape_intermediate"
               [] c = "[" -> "csi_entry"
               [] c = "]" -> "osc_string"
               [] c = "P" -> "dcs_entry"
               [] c \in {"X", "^", "_"} -> "sos_pm_apc_string"
               [] OTHER -> "ground")
      [] st = "escape_intermediate" ->
            (CASE k = "intermediate" -> st
               [] OTHER -> "ground")
      [] st = "csi_entry" ->
            (CASE k = "intermediate" -> "csi_intermediate"
               [] k = "final" -> "ground"
               [] OTHER -> "csi_param")
      [] st = "csi_param" ->
            (CASE k = "intermediate" -> "csi_intermediate"
               [] k = "private" -> "csi_ignore"
               [] k = "final" -> "ground"
               [] OTHER -> st)
      [] st = "csi_intermediate" ->
            (CASE k = "intermediate" -> st
               [] k = "final" -> "ground"
               [] OTHER -> "csi_ignore")
      [] st = "csi_ignore" ->
            (CASE k = "final" -> "ground"
               [] OTHER -> st)
      [] st = "dcs_entry" ->
            (CASE k = "intermediate" -> "dcs_intermediate"
               [] k = "final" -> "dcs_passthrough"
               [] OTHER -> "dcs_param")
      [] st = "dcs_param" ->
            (CASE k = "intermediate" -> "dcs_intermediate"
               [] k = "final" -> "dcs_passthrough"
               [] k = "private" -> "dcs_ignore"
               [] OTHER -> st)
      [] st = "dcs_intermediate" ->
            (CASE k = "intermediate" -> st
               [] k = "final" -> "dcs_passthrough"
               [] OTHER -> "dcs_ignore")
      [] OTHER -> st

\* The parser reads bytes.  Outside the ground state the bytes of a
\* character outside ASCII do nothing, except the byte 9C (ST), which ends
\* a device control string and an SOS, PM or APC string.  Of the model's
\* characters SPLIT_LEFT (U+251C, bytes E2 94 9C) holds it.
HoldsST == {"SPLIT_LEFT"}

StringStates == {"dcs_passthrough", "dcs_ignore", "sos_pm_apc_string"}

\* the parser's state after reading character c in state st: ESC starts
\* an escape and CAN and SUB end whatever was read, in every state; BEL
\* ends an operating system command and ST a string; other controls and
\* characters outside ASCII change nothing
StripStep(st, c) ==
    LET k == CharClass(c)
    IN  CASE k = "esc" -> "escape"
          [] k = "cancel" -> "ground"
          [] k = "c0" /\ st = "osc_string" /\ c = "BEL" -> "ground"
          [] k = "utf8" /\ c \in HoldsST /\ st \in StringStates -> "ground"
          [] k \in {"c0", "utf8"} \/ st = "ground" -> st
          [] OTHER -> SequenceStep(st, k, c)

\* what strip writes when the parser reads c in state st: in the ground
\* state the character itself unless it is a control, and the newline of
\* a line feed wherever controls are executed
StripPrint(st, c) ==
    CASE c = "LF" /\ st \in ExecuteStates -> <<"LF">>
      [] st = "ground" /\ c \notin {"ESC", "CAN", "SUB", "LF", "BEL"} -> <<c>>
      [] OTHER -> <<>>

\* reading s[lo..hi] from each state: the state reached and what was
\* written (the second half of the run is read from where the first ends)
RECURSIVE StripRun(_, _, _)
StripRun(s, lo, hi) ==
    IF lo > hi THEN [st \in StripStates |-> [end |-> st, out |-> <<>>]]
    ELSE IF lo = hi
    THEN [st \in StripStates |->
             [end |-> StripStep(st, s[lo]), out |-> StripPrint(st, s[lo])]]
    ELSE LET mid == (lo + hi) \div 2
             a == StripRun(s, lo, mid)
             b == StripRun(s, mid + 1, hi)
         IN  [st \in StripStates |->
                 LET x == a[st]
                     y == b[x.end]
                 IN  [end |-> y.end, out |-> x.out \o y.out]]

\* Unformattable::unformat: what strip writes, the parser started in ground
unformat(s) == StripRun(s, 1, Len(s))["ground"].out

\* the build: integer overflow panics with debug assertions and wraps without
Builds == {"debug", "release"}

\* BOX_WIDTH.checked_sub(len).unwrap_or(BOX_WIDTH)
CheckedSubOr(len) == IF len <= BOX_WIDTH THEN BOX_WIDTH - len ELSE BOX_WIDTH

\* format!("{} {}{: <width$}{}", VERTICAL_CHAR, line, "", VERTICAL_CHAR)
ContentRow(line, width) ==
    <<VERTICAL_CHAR, " ">> \o line \o Spaces(width) \o <<VERTICAL_CHAR>>

\* render_lines: one row per line of content.  `width` is
\* checked_sub(..).unwrap_or(BOX_WIDTH) - 1 in usize: when the first part is
\* 0 the subtraction overflows, which panics in a debug build and wraps to
\* usize::MAX in a release build (a padding of 2^64 - 1 columns, which no
\* row can hold: the row is never finished).
\* The loop stops at the first line whose subtraction overflows; the rows
\* of the lines before it have been queued.
LineSub(line) == CheckedSubOr(ByteLen(unformat(line)))

render_lines(content, build) ==
    LET overflows == {i \in 1..Len(content) : LineSub(content[i]) = 0}
        done == IF overflows = {} THEN Len(content)
                ELSE (CHOOSE i \in overflows : \A k \in overflows : i <= k) - 1
    IN  [status |-> IF overflows = {} THEN "ok"
                    ELSE IF build = "debug" THEN "overflow_panic"
                    ELSE "wrapped",
         rows |-> [i \in 1..done |->
                      ContentRow(content[i], LineSub(content[i]) - 1)]]

PlainLine(n) == [i \in 1..n |-> "x"]
\* a line styled as the string of can_remove_styles_from_string: red, bold
StyledLine(n, no_color) == Styled(PlainLine(n), Red, TRUE, no_color)

LineInputs == {PlainLine(n) : n \in 0..MaxLineLen}
              \cup {StyledLine(n, nc) : n \in 0..MaxLineLen, nc \in BOOLEAN}

LinesInit ==
    /\ rl_content \in {<<l>> : l \in LineInputs}
    /\ rl_rows = <<>>
    /\ rl_status = "idle"

\* self.render_lines(stdout, rl_content)
RenderLines ==
    /\ rl_status = "idle"
    /\ \E build \in Builds :
          LET r == render_lines(rl_content, build)
          IN  /\ rl_rows' = r.rows
              /\ rl_status' = r.status
    /\ UNCHANGED rl_content
    /\ UNCHANGED not_rl

\* render_side_top / render_side_bottom: corner, BOX_WIDTH rules, corner;
\* with a split (at, character), line_chars[at] = character when
\* line_chars.len() > at && at > 0.  split is <<>> for None.
SideLine(left, right, split) ==
    LET line_chars == <<left>> \o Repeat(<<HORIZONTAL_CHAR>>, BOX_WIDTH)
                      \o <<right>>
    IN  IF split # <<>> /\ Len(line_chars) > split[1] /\ split[1] > 0
        THEN [line_chars EXCEPT ![split[1] + 1] = split[2]]
        ELSE line_chars
render_side_top(split) == SideLine(TOP_LEFT_CHAR, TOP_RIGHT_CHAR, split)
render_side_bottom(split) == SideLine(BOTTOM_LEFT_CHAR, BOTTOM_RIGHT_CHAR, split)

Title == <<"D", "e", "p", "l", "o", "y", "m", "e", "n", "t", " ",
           "C", "o", "p", "y">>

\* render_header: top border, the title row, the divider
render_header(no_color) ==
    LET width == BOX_WIDTH - (ByteLen(Title) + 1)
    IN  << render_side_top(<<>>),
           <<VERTICAL_CHAR, " ">> \o Styled(Title, Magenta, FALSE, no_color)
               \o Spaces(width) \o <<VERTICAL_CHAR>>,
           <<SPLIT_LEFT>> \o Repeat(<<HORIZONTAL_CHAR>>, BOX_WIDTH)
               \o <<SPLIT_RIGHT>> >>

\* match queue.destinations().len() { 0 => 0, 1 | 2 => 1, c => floor(c / 2) }
arrow_index(n) == IF n = 0 THEN 0 ELSE IF n \in {1, 2} THEN 1 ELSE n \div 2

\* match source.len() { size if size <= 15 => size + 4, _ => 15 + 4 }
left_column_spacing(size) == IF size <= 15 THEN size + 4 ELSE 15 + 4

\* format!("{} {}>  ", truncate(source, 15), HORIZONTAL_CHAR.repeat(2))
ArrowLine(source) ==
    truncate(source, 15) \o <<" ">> \o Repeat(<<HORIZONTAL_CHAR>>, 2)
    \o <<">", " ", " ">>

\* format!("{: >empty_space_padding$}", VERTICAL_CHAR)
EmptyLine(padding) ==
    (IF padding > 1 THEN Spaces(padding - 1) ELSE <<>>) \o <<VERTICAL_CHAR>>

\* the Vec<String> render_queue maps the destinations to (i is 0-based)
QueueContent(queue) ==
    LET n == Len(queue.destinations)
        empty_space_padding == left_column_spacing(ByteLen(queue.source)) - 1
    IN  [k \in 1..n |->
            IF k - 1 = arrow_index(n) THEN ArrowLine(queue.source)
            ELSE EmptyLine(empty_space_padding)]

\* render_queue: [status, rows (the content rows), screen (all rows)]
render_queue(queue, build) ==
    LET split == left_column_spacing(ByteLen(queue.source))
        r == render_lines(QueueContent(queue), build)
    IN  [status |-> r.status,
         rows |-> r.rows,
         screen |-> <<render_side_top(<<split, SPLIT_ABOVE>>)>> \o r.rows
                    \o (IF r.status = "ok"
                        THEN <<render_side_bottom(<<split, SPLIT_BELOW>>)>>
                        ELSE <<>>)]

PromptLine ==
    <<"D", "o", " ", "y", "o", "u", " ", "w", "a", "n", "t", " ", "t", "o", " ",
      "c", "o", "p", "y", " ", "t", "o", " ", "t", "h", "e", "s", "e", " ",
      "d", "i", "r", "e", "c", "t", "o", "r", "i", "e", "s", "?">>

KeysLine(no_color) ==
    <<"P", "r", "e", "s", "s", " ">>
    \o Styled(<<"[", "Y", "]">>, DarkGrey, TRUE, no_color)
    \o <<" ", "o", "r", " ">>
    \o Styled(<<"[", "N", "]">>, DarkGrey, TRUE, no_color)
    \o <<" ", "o", "n", " ", "y", "o", "u", "r", " ",
         "k", "e", "y", "b", "o", "a", "r", "d">>

\* render_pre_copy: header, the two prompt lines, bottom border, the queue
render_pre_copy(queue, build, no_color) ==
    LET lines == render_lines(<<PromptLine, KeysLine(no_color)>>, build)
        q == render_queue(queue, build)
    IN  IF lines.status # "ok"
        THEN [status |-> lines.status, rows |-> <<>>,
              screen |-> render_header(no_color) \o lines.rows]
        ELSE [status |-> q.status, rows |-> q.rows,
              screen |-> render_header(no_color) \o lines.rows
                         \o <<render_side_bottom(<<>>)>> \o q.screen]

(***************************************************************************)
(* UserInterface: the state                                                *)
(***************************************************************************)
SourceName(k) == [i \in 1..k |-> "s"]

UIQueues ==
    {[source |-> SourceName(k), destinations |-> [i \in 1..n |-> "D:"]] :
        k \in 0..MaxSrcLen, n \in 0..MaxQueue}

NoQueue == [source |-> <<>>, destinations |-> <<>>]

UIInit ==
    /\ ui_arg \in UIQueues
    /\ ui_no_color \in BOOLEAN
    /\ ui_state = "None"
    /\ ui_queue = NoQueue
    /\ ui_prev = "None"
    /\ ui_screen = <<>>
    /\ ui_rows = <<>>
    /\ ui_rendered = FALSE

\* UserInterface::new(): clears the screen, state: None
New ==
    /\ ui_state' = "None"
    /\ ui_queue' = NoQueue
    /\ ui_prev' = "None"
    /\ ui_screen' = <<>>
    /\ ui_rows' = <<>>
    /\ ui_rendered' = FALSE
    /\ UNCHANGED <<ui_arg, ui_no_color, ui_no_color>>
    /\ UNCHANGED not_ui

\* with_pre_copy(queue): self.state = Some(UIState::PreCopy(queue))
WithPreCopy ==
    /\ ui_queue' = ui_arg
    /\ ui_prev' = ui_state
    /\ ui_state' = "PreCopy"
    /\ UNCHANGED <<ui_arg, ui_no_color, ui_screen, ui_rows, ui_rendered>>
    /\ UNCHANGED not_ui

\* with_copying(channel): self.state = Some(UIState::Copying(channel))
WithCopying ==
    /\ ui_queue' = NoQueue
    /\ ui_prev' = ui_state
    /\ ui_state' = "Copying"
    /\ UNCHANGED <<ui_arg, ui_no_color, ui_screen, ui_rows, ui_rendered>>
    /\ UNCHANGED not_ui

\* with_completed(queue): self.state = Some(UIState::Completed(queue))
WithCompleted ==
    /\ ui_queue' = ui_arg
    /\ ui_prev' = ui_state
    /\ ui_state' = "Completed"
    /\ UNCHANGED <<ui_arg, ui_no_color, ui_screen, ui_rows, ui_rendered>>
    /\ UNCHANGED not_ui

\* render: draws the PreCopy screen, and nothing for any other state
Render ==
    /\ \E build \in Builds :
          IF ui_state = "PreCopy"
          THEN LET r == render_pre_copy(ui_queue, build, ui_no_color)
               IN  /\ ui_screen' = r.screen
                   /\ ui_rows' = r.rows
                   /\ ui_rendered' = TRUE
          ELSE UNCHANGED <<ui_screen, ui_rows, ui_rendered>>
    /\ UNCHANGED <<ui_arg, ui_no_color, ui_state, ui_queue, ui_prev>>
    /\ UNCHANGED not_ui

(***************************************************************************)
(* Specifications: one per component; the others stay idle.                *)
(***************************************************************************)
CopyIdle ==
    /\ destinations = <<>>
    /\ pc = "idle"
    /\ total_bytes = 0
    /\ size_result = "none"
    /\ dest_idx = 0
    /\ dest = ""
    /\ copied_bytes = 0
    /\ ticks = 0
    /\ events = <<>>
    /\ outcomes = <<>>
    /\ completions = 0

FormatIdle ==
    /\ fmt_prev = NoCall
    /\ fmt_bytes = <<0, 0, 0, 0, 0>>
    /\ fmt_out = <<>>
    /\ fmt_done = FALSE

TruncateIdle ==
    /\ tr_s = <<>>
    /\ tr_n = 0
    /\ tr_first = <<>>
    /\ tr_out = <<>>
    /\ tr_calls = 0

LinesIdle ==
    /\ rl_content = <<>>
    /\ rl_rows = <<>>
    /\ rl_status = "idle"

UIIdle ==
    /\ ui_arg = NoQueue
    /\ ui_no_color = FALSE
    /\ ui_state = "None"
    /\ ui_queue = NoQueue
    /\ ui_prev = "None"
    /\ ui_screen = <<>>
    /\ ui_rows = <<>>
    /\ ui_rendered = FALSE

Init == CopyInit /\ FormatIdle /\ TruncateIdle /\ LinesIdle /\ UIIdle
Next ==
    \/ GetSizeOk
    \/ GetSizeErr
    \/ BeginCopy
    \/ Progress
    \/ CopyOk
    \/ CopyErr
    \/ OnComplete
Spec == Init /\ [][Next]_vars

InitFormat == CopyIdle /\ FormatInit /\ TruncateIdle /\ LinesIdle /\ UIIdle
NextFormat ==
    \/ GetBytesString
    \/ NextBytes
SpecFormat == InitFormat /\ [][NextFormat]_vars

InitTruncate == CopyIdle /\ FormatIdle /\ TruncateInit /\ LinesIdle /\ UIIdle
NextTruncate ==
    \/ TruncateFirst
    \/ TruncateAgain
SpecTruncate == InitTruncate /\ [][NextTruncate]_vars

InitLines == CopyIdle /\ FormatIdle /\ TruncateIdle /\ LinesInit /\ UIIdle
NextLines == RenderLines
SpecLines == InitLines /\ [][NextLines]_vars

InitUI == CopyIdle /\ FormatIdle /\ TruncateIdle /\ LinesIdle /\ UIInit
NextUI ==
    \/ New
    \/ WithPreCopy
    \/ WithCopying
    \/ WithCompleted
    \/ Render
SpecUI == InitUI /\ [][NextUI]_vars

(***************************************************************************)
(* Claims                                                                  *)
(***************************************************************************)
Ended == pc \in {"done", "panic_get_size", "panic_copy"}

\* C1: in every execution of start_copy in which the source size was
\* measured, oncomplete runs exactly once, and only after every destination
\* has been attempted, whether each copy succeeded or failed.
C1_OnCompleteExactlyOnce ==
    /\ completions <= 1
    /\ completions = 1 =>
          /\ dest_idx = Len(destinations)
          /\ Len(outcomes) = Len(destinations)
    /\ (size_result = "ok" /\ Ended) =>
          /\ completions = 1
          /\ Len(outcomes) = Len(destinations)

\* C2: when the copy into destination i fails, every later destination of
\* the queue is still attempted: the failure does not end the run.
C2_FailureDoesNotStopRun ==
    \A i \in 1..Len(outcomes) :
        (outcomes[i] = "err" /\ Ended) =>
            \A j \in (i + 1)..Len(destinations) : j <= dest_idx

\* C3: destinations are copied in queue order, one at a time: every
\* progress callback made during the i-th copy carries the i-th destination
\* of the queue, no callback belongs to a copy that has not started, and no
\* callback of an earlier destination follows one of a later destination.
C3_QueueOrder ==
    \A k \in 1..Len(events) :
        /\ events[k].pos \in 1..dest_idx
        /\ events[k].dest = destinations[events[k].pos]
        /\ \A j \in 1..(k - 1) : events[j].pos <= events[k].pos

C3_Witness ==
    /\ Len(destinations) = 2
    /\ destinations[1] # destinations[2]
    /\ Len(events) >= 3
    /\ events[1].pos = 1
    /\ events[2].pos = 1
    /\ events[3].pos = 2
    /\ pc = "done"

\* C4: every percentage passed to the progress callback is
\* min(100, floor(bytesCopied / totalSourceBytes * 100)) and lies in
\* 0..100, also when bytesCopied exceeds the measured total and when the
\* measured total is 0.
C4_PercentageClamped ==
    \A k \in 1..Len(events) :
        /\ \E p \in 0..100 : events[k].percentage = Usize(p)
        /\ total_bytes > 0 =>
              events[k].percentage =
                  Usize(Min(100, (events[k].copied * 100) \div total_bytes))

\* C5: if the size of the source cannot be measured, no copy into any
\* destination is started, no progress callback is made and oncomplete is
\* not invoked.
C5_NothingTouchedOnSizeFailure ==
    size_result = "err" =>
        /\ dest_idx = 0
        /\ outcomes = <<>>
        /\ events = <<>>
        /\ completions = 0
        /\ pc \notin {"copying", "done"}

C5_Witness ==
    /\ size_result = "err"
    /\ pc = "panic_get_size"
    /\ Len(destinations) = 2

Rank(st) ==
    CASE st = "None" -> 0
      [] st = "PreCopy" -> 1
      [] st = "Copying" -> 2
      [] st = "Completed" -> 3

\* C6: over any sequence of with_pre_copy, with_copying and with_completed
\* the state only moves forward along PreCopy -> Copying -> Completed.
C6_ForwardOnly == Rank(ui_prev) <= Rank(ui_state)

UnitSuffixes == << <<"b">>, <<"k", "b">>, <<"m", "b">>, <<"g", "b">>, <<"t", "b">> >>

\* the largest k in 0..4 with bytes >= 1024^k (0 when bytes is 0)
LargestUnit(bytes) ==
    IF \E k \in 1..4 : bytes[k + 1] > 0
    THEN CHOOSE k \in 1..4 : bytes[k + 1] > 0 /\ \A j \in (k + 1)..4 : bytes[j + 1] = 0
    ELSE 0

\* the unit an output names
UnitIndex(out) ==
    IF Len(out) >= 2 /\ out[Len(out) - 1] \in {"k", "m", "g", "t"}
    THEN CHOOSE k \in 1..4 : UnitSuffixes[k + 1][1] = out[Len(out) - 1]
    ELSE 0

\* C7: get_bytes_string(b) is floor(b / 1024^k) followed by the suffix of
\* unit k, for the largest k with b >= 1024^k; 0 gives "0b", 1023 "1023b",
\* 1024 "1kb", 1024^2 "1mb", 1024^3 "1gb", 2*1024^4 "2tb"; the unit never
\* decreases as b grows.
C7_LargestUnitFloor ==
    fmt_done =>
        /\ LET k == LargestUnit(fmt_bytes)
           IN  \* below 1024^(k+1) the quotient is limb k (all of the top limb for tb)
               fmt_out = Display(fmt_bytes[k + 1]) \o UnitSuffixes[k + 1]
        /\ fmt_bytes = <<0, 0, 0, 0, 0>> => fmt_out = <<"0", "b">>
        /\ fmt_bytes = <<1023, 0, 0, 0, 0>> => fmt_out = <<"1", "0", "2", "3", "b">>
        /\ fmt_bytes = <<0, 1, 0, 0, 0>> => fmt_out = <<"1", "k", "b">>
        /\ fmt_bytes = <<0, 0, 1, 0, 0>> => fmt_out = <<"1", "m", "b">>
        /\ fmt_bytes = <<0, 0, 0, 1, 0>> => fmt_out = <<"1", "g", "b">>
        /\ fmt_bytes = <<0, 0, 0, 0, 2>> => fmt_out = <<"2", "t", "b">>
        /\ (fmt_prev # NoCall /\ Ge(fmt_bytes, fmt_prev.bytes)) =>
              UnitIndex(fmt_prev.out) <= UnitIndex(fmt_out)
        /\ (fmt_prev # NoCall /\ Ge(fmt_prev.bytes, fmt_bytes)) =>
              UnitIndex(fmt_out) <= UnitIndex(fmt_prev.out)

C7_Witness ==
    /\ fmt_done
    /\ fmt_prev.bytes = <<1023, 1023, 0, 0, 0>>
    /\ fmt_prev.out = <<"1", "0", "2", "3", "k", "b">>
    /\ fmt_bytes = <<0, 0, 1, 0, 0>>
    /\ fmt_out = <<"1", "m", "b">>

\* C8: truncate(s, n) is the prefix of s with min(n, characterCount(s))
\* characters: at most n characters, s itself when characterCount(s) <= n,
\* and truncating the result again changes nothing.
C8_TruncatePrefix ==
    /\ tr_calls >= 1 =>
          /\ tr_first = SubSeq(tr_s, 1, Min(tr_n, CharCount(tr_s)))
          /\ CharCount(tr_first) <= tr_n
          /\ CharCount(tr_s) <= tr_n => tr_first = tr_s
    /\ tr_calls = 2 => tr_out = tr_first

C8_Witness ==
    /\ tr_calls = 2
    /\ tr_s = <<"EUR", "EACUTE", "a">>
    /\ tr_n = 2
    /\ tr_out = <<"EUR", "EACUTE">>

\* the padding of a rendered row: what lies between the line and the
\* closing border
RowPadding(row, line) == Len(row) - Len(line) - 3

\* C9: for a content line of visible length L, render_lines pads with
\* exactly 51 - L - 1 spaces when that is not negative and with none
\* otherwise, and the computation never underflows (L = 51, L > 51).
C9_PaddingNeverUnderflows ==
    rl_status # "idle" =>
        /\ rl_status = "ok"
        /\ Len(rl_rows) = Len(rl_content)
        /\ \A i \in 1..Len(rl_rows) :
              LET L == Len(unformat(rl_content[i]))
              IN  RowPadding(rl_rows[i], rl_content[i]) =
                      IF BOX_WIDTH - L - 1 >= 0 THEN BOX_WIDTH - L - 1 ELSE 0

\* a content row that holds the arrow glyph
IsArrowRow(row) == \E i \in 1..Len(row) : row[i] = ">"

\* arrowRow of the specification: 1 for one or two destinations, else floor(n/2)
ArrowRow(n) == IF n \in {1, 2} THEN 1 ELSE n \div 2

\* C10: for a queue of n >= 1 destinations render_queue emits exactly n
\* content rows, exactly one of which is the arrow row, at row arrowRow(n)
\* (counted from 0, as render_queue counts); with two destinations the
\* arrow is on the first row.
C10_OneArrowRow ==
    (ui_rendered /\ Len(ui_queue.destinations) >= 1) =>
        LET n == Len(ui_queue.destinations)
        IN  /\ Len(ui_rows) = n
            /\ Cardinality({i \in 1..Len(ui_rows) : IsArrowRow(ui_rows[i])}) = 1
            /\ \A i \in 1..Len(ui_rows) :
                  IsArrowRow(ui_rows[i]) => i - 1 = ArrowRow(n)
            /\ n = 2 => IsArrowRow(ui_rows[1])

====
